---- MODULE Spec2Model ----
(***************************************************************************)
(* Model of the real-time layer of the manufacturing API:                  *)
(*   - services/realtime.py   BroadcastManager (topics, locks, fan-out)    *)
(*   - api/main.py            _validate_ws_and_get_user, ws_dashboard,     *)
(*                            ws_scheduler                                 *)
(*   - schemas/realtime.py    WsEnvelope / KpiSnapshot / SchedulerEvent    *)
(*   - db/session.py          set_current_tenant / tenant_context          *)
(*   - db/seed.py             seed_all / _ensure_base_tenant               *)
(*   - core/deps.py           get_tenant_id / get_current_user             *)
(* The WebSocket side is specification Spec, the authenticator as a pure   *)
(* function is SpecAuth, the tenant-scoped database session is SpecDb.     *)
(***************************************************************************)
EXTENDS Integers, Sequences, FiniteSets, TLC

VARIABLES
    topics,             \* BroadcastManager._topics : topic -> set of websockets
    locks,              \* BroadcastManager._locks  : topic -> [holder, waiters]
    pc,                 \* position of each connection's handler coroutine
    req,                \* the connection attempt: endpoint, token, header, board
    tenant_id,          \* handler local: tenant returned by the authenticator
    user_id,            \* handler local: user returned by the authenticator
    topic,              \* handler local: topic computed at subscription
    application_state,  \* WebSocket.application_state
    client_state,       \* WebSocket.client_state
    peerGone,           \* the peer has closed or the transport is broken
    closeCode,          \* code passed to websocket.close, 0 when none
    inbox,              \* frames the transport accepted for each client
    rx,                 \* the frame most recently taken by a receive loop
    nRecv,              \* number of frames taken by receive loops so far
    bc,                 \* per task: the broadcast call in progress / last made
    nCalls,             \* number of publisher calls started so far
    pruned,             \* websockets removed from a topic by a broadcast
    authIn,             \* SpecAuth: the authenticator's input
    authOut,            \* SpecAuth: the authenticator's result
    op,                 \* SpecDisc: the direct manager call and its outcome
    reg,                \* SpecReg: users, roles and the register_user requests
    keys,               \* SpecTopic: arguments and results of the topic derivation
    db                  \* SpecDb: pool, connections and sessions

wsVars == <<topics, locks, pc, req, tenant_id, user_id, topic,
            application_state, client_state, peerGone, closeCode, inbox,
            rx, nRecv, bc, nCalls, pruned>>
authVars == <<authIn, authOut, op, reg, keys>>
vars == <<wsVars, authVars, db>>

-----------------------------------------------------------------------------
(* Bounds *)

NumConns == 2          \* websocket connections
MaxFrames == 1         \* client frames taken by the receive loops, in total
MaxCalls == 1          \* publisher / direct broadcast calls, in total
MaxOrdered == 3        \* SpecOrder: numbered broadcast calls, in total

Conns == 1..NumConns     \* a websocket and the handler task serving it
Pubs == {0}              \* a task calling the manager from an HTTP request
Callers == {0, NumConns + 1}   \* tasks calling broadcast() concurrently
Tasks == Conns \cup Pubs \cup Callers
NoTask == -1             \* "no websocket" / "no holder" (exclude=None)

-----------------------------------------------------------------------------
(* Python values *)

None == "<None>"               \* Python None (an absent claim, header, param)
Datetime == "<datetime>"       \* a datetime.datetime object

\* str(v) as used in f-strings and str(...) comparisons
Str(v) == IF v = None THEN "None" ELSE v

\* truthiness of an optional string: None and "" are falsy
Truthy(v) == v # None /\ v # ""

-----------------------------------------------------------------------------
(* Tokens and the authenticator (api/main.py:320-367) *)

Tenants == {"t1", "t2"}        \* str(UUID): fixed length, no ':' inside
Users == {"u1"}

NoToken == [form |-> "absent", tenant_id |-> None, sub |-> None]
EmptyToken == [form |-> "empty", tenant_id |-> None, sub |-> None]
Jwt(t, s) == [form |-> "jwt", tenant_id |-> t, sub |-> s]
Garbage == [form |-> "garbage", tenant_id |-> None, sub |-> None]
Expired(t, s) == [form |-> "expired", tenant_id |-> t, sub |-> s]

\* websocket.query_params.get("token"): None when absent, else the string
TokenParam(tok) == IF tok.form = "absent" THEN None
                   ELSE IF tok.form = "empty" THEN "" ELSE "tok"

\* decode_token: raises for a token that is not signed by the server or has
\* expired, else returns the claim set
DecodeRaises(tok) == tok.form # "jwt"

Reject(code) == [ok |-> FALSE, code |-> code, tenant_id |-> None, user_id |-> None]
Admit(t, u) == [ok |-> TRUE, code |-> 0, tenant_id |-> t, user_id |-> u]

\* line 350: str(claims.get("tenant_id")) != str(tenant_id)
TenantClaimDiffers(tok, header) == Str(tok.tenant_id) # Str(header)

ValidateWs_NoTenantCheck(tok, header) ==
    IF ~Truthy(TokenParam(tok)) \/ ~Truthy(header) THEN Reject(4401)
    ELSE IF DecodeRaises(tok) THEN Reject(4401)
    ELSE IF ~Truthy(tok.sub) THEN Reject(4401)
    ELSE Admit(Str(header), Str(tok.sub))

\* _validate_ws_and_get_user
ValidateWs(tok, header) ==
    IF ~Truthy(TokenParam(tok)) \/ ~Truthy(header) THEN Reject(4401)
    ELSE IF DecodeRaises(tok) THEN Reject(4401)
    ELSE IF TenantClaimDiffers(tok, header) THEN Reject(4403)
    ELSE IF ~Truthy(tok.sub) THEN Reject(4401)
    ELSE Admit(Str(header), Str(tok.sub))

-----------------------------------------------------------------------------
(* Topics (services/realtime.py:36-46) *)

Boards == {None, "", "b1", "t2"}

dashboard_topic_NoTenant(t) == "dashboard:"

dashboard_topic(t) == "dashboard:" \o Str(t)

scheduler_topic_SharedPrefix(t, board) ==
    IF Truthy(board) THEN ("scheduler:" \o Str(t)) \o (":" \o board)
    ELSE "dashboard:" \o Str(t)

scheduler_topic_NoBoard(t, board) == "scheduler:" \o Str(t)

scheduler_topic(t, board) ==
    IF Truthy(board) THEN ("scheduler:" \o Str(t)) \o (":" \o board)
    ELSE "scheduler:" \o Str(t)

\* every topic the two derivations give for one tenant
TenantTopics(t) == {dashboard_topic(t)} \cup {scheduler_topic(t, b) : b \in Boards}

-----------------------------------------------------------------------------
(* Messages (schemas/realtime.py) *)

EmptyMap == [body |-> "{}", at |-> None]          \* the dict {}
ClientMap == [body |-> "{op:1}", at |-> None]     \* a dict parsed from JSON
Payloads == {EmptyMap, ClientMap}

\* KpiSnapshot(...).model_dump(): python mode, `at` stays a datetime object
KpiSnapshotDump == [body |-> "kpi", at |-> Datetime]

\* SchedulerEvent(event=e, board=b).model_dump()
SchedulerEventDump(e, b) == [body |-> "event:" \o e, at |-> Datetime]

\* WsEnvelope(type=, payload=, channel=).model_dump(): `at` is filled by the
\* default factory datetime.now(timezone.utc) and dumped as a datetime object
WsEnvelopeDump(type, payload, channel) ==
    [type |-> type, payload |-> payload, at |-> Datetime,
     user_id |-> None, channel |-> channel]

\* a plain dict a direct caller of broadcast() passes
PlainDict(type) == [type |-> type, payload |-> EmptyMap, at |-> None,
                    user_id |-> None, channel |-> None]

\* json.dumps(message) inside WebSocket.send_json: a datetime object anywhere
\* in the message raises TypeError
JsonSerializable(m) == m.at # Datetime /\ m.payload.at # Datetime

Pong == [text |-> "pong"]                 \* websocket.send_text("pong")
JsonFrame(t, m) == [topic |-> t, json |-> m]  \* a message sent by send_json

-----------------------------------------------------------------------------
(* Client frames and their parsing (api/main.py:410-411, 473-483) *)

\* JSON values the scheduler loop inspects
JAbsent == [t |-> "absent", v |-> ""]     \* key not in the dict: .get -> None
JStr(s) == [t |-> "str", v |-> s]
JNum(n) == [t |-> "num", v |-> n]
JMap(p) == [t |-> "map", v |-> p.body]
JList == [t |-> "list", v |-> "[1]"]

ParseError == [ok |-> FALSE, isDict |-> FALSE, type |-> JAbsent, payload |-> JAbsent]
Parsed(isDict, type, payload) ==
    [ok |-> TRUE, isDict |-> isDict, type |-> type, payload |-> payload]

\* text frames clients send
TextFrames == {"ping", "PING", "hello",
               "{\"type\":\"ping\"}",
               "{\"type\":\"operation.move\",\"payload\":{\"op\":1}}",
               "{\"type\":\"schedule.update\"}",
               "{\"payload\":{\"op\":1}}",
               "{\"type\":5}",
               "[1]",
               "{\"type\":\"operation.move\",\"payload\":[1]}"}

\* json.loads(text) on the frames above (receive_json)
JsonLoads(text) ==
    CASE text = "{\"type\":\"ping\"}" -> Parsed(TRUE, JStr("ping"), JAbsent)
      [] text = "{\"type\":\"operation.move\",\"payload\":{\"op\":1}}" ->
             Parsed(TRUE, JStr("operation.move"), JMap(ClientMap))
      [] text = "{\"type\":\"schedule.update\"}" ->
             Parsed(TRUE, JStr("schedule.update"), JAbsent)
      [] text = "{\"payload\":{\"op\":1}}" -> Parsed(TRUE, JAbsent, JMap(ClientMap))
      [] text = "{\"type\":5}" -> Parsed(TRUE, JNum("5"), JAbsent)
      [] text = "[1]" -> Parsed(FALSE, JAbsent, JAbsent)
      [] text = "{\"type\":\"operation.move\",\"payload\":[1]}" ->
             Parsed(TRUE, JStr("operation.move"), JList)
      [] OTHER -> ParseError      \* ping, PING, hello: not JSON documents

\* str.lower() on the frames above
Lower(text) == IF text = "PING" THEN "ping" ELSE text

IsDashboardPing_CaseSensitive(msg) == msg = "ping"

\* ws_dashboard line 411: msg and msg.lower() == "ping"
IsDashboardPing(msg) == msg # "" /\ Lower(msg) = "ping"

\* data.get("payload") or {}
PayloadOrEmpty(jv) ==
    IF jv.t = "absent" THEN EmptyMap
    ELSE IF jv.t = "map" THEN ClientMap
    ELSE [body |-> jv.v, at |-> None]

\* what one iteration of the ws_scheduler loop does with a received frame:
\*   "raise"     an exception escapes the loop (lines 490-493)
\*   "pong"      send_text("pong"); continue
\*   "ignore"    continue
\*   "broadcast" rebroadcast WsEnvelope(type="scheduler."+type, ...)
SchedulerStep(text) ==
    LET data == JsonLoads(text) IN
    IF ~data.ok THEN [do |-> "raise"]                      \* JSONDecodeError
    ELSE IF ~data.isDict THEN [do |-> "raise"]             \* list has no .get
    ELSE IF data.type = JStr("ping") THEN [do |-> "pong"]
    ELSE IF data.type.t # "str" THEN [do |-> "ignore"]
    ELSE IF data.payload.t = "list" THEN [do |-> "raise"]  \* ValidationError
    ELSE [do |-> "broadcast", type |-> "scheduler." \o data.type.v,
          payload |-> PayloadOrEmpty(data.payload)]

-----------------------------------------------------------------------------
(* BroadcastManager state helpers (services/realtime.py:25-51) *)

FreeLock == [holder |-> NoTask, waiters |-> <<>>]

TopicLock_Fresh(lk, t) ==
    [x \in DOMAIN lk \cup {t} |-> IF x = t THEN FreeLock ELSE lk[x]]

\* _topic_lock: create the topic's asyncio.Lock on first use
TopicLock(lk, t) == IF t \in DOMAIN lk THEN lk ELSE lk @@ (t :> FreeLock)

EnsureTopic_Reset(tp, t) ==
    [x \in DOMAIN tp \cup {t} |-> IF x = t THEN {} ELSE tp[x]]

\* _ensure_topic: under the global lock, create the subscriber set if absent.
\* The global lock is never held across an await, so the body is one step.
EnsureTopic(tp, t) == IF t \in DOMAIN tp THEN tp ELSE tp @@ (t :> {})

Acquire_OneLock(lk, t, k) ==
    IF \A x \in DOMAIN lk : lk[x].holder = NoTask /\ lk[x].waiters = <<>>
    THEN [lk EXCEPT ![t].holder = k]
    ELSE [lk EXCEPT ![t].waiters = Append(@, k)]

Acquire_Barging(lk, t, k) == [lk EXCEPT ![t].holder = k]

\* asyncio.Lock.acquire by task k: taken at once when free with no waiters,
\* else k joins the FIFO of waiters
Acquire(lk, t, k) ==
    IF lk[t].holder = NoTask /\ lk[t].waiters = <<>>
    THEN [lk EXCEPT ![t].holder = k]
    ELSE [lk EXCEPT ![t].waiters = Append(@, k)]

Release_NoWakeup(lk, t) == [lk EXCEPT ![t].holder = NoTask]

\* asyncio.Lock.release: the first waiter, if any, is the next holder
Release(lk, t) ==
    IF lk[t].waiters = <<>>
    THEN [lk EXCEPT ![t].holder = NoTask]
    ELSE [lk EXCEPT ![t].holder = Head(lk[t].waiters),
                    ![t].waiters = Tail(lk[t].waiters)]

Holds(k, t) == t \in DOMAIN locks /\ locks[t].holder = k

NoCall == [phase |-> "none", kind |-> "", topic |-> "", message |-> PlainDict(""),
           exclude |-> NoTask, snapshot |-> {}, todo |-> {}, attempted |-> {},
           delivered |-> {}, to_drop |-> {}]

Idle(k) == bc[k].phase \in {"none", "returned"}

-----------------------------------------------------------------------------
(* Initial state *)

NoReq == [endpoint |-> "", token |-> NoToken, header |-> None, board |-> None]
NoAuthIn == [token |-> NoToken, header |-> None]
NoRx == [conn |-> NoTask, frame |-> ""]
NoTopics == [t \in {} |-> {}]
NoOp == [topic |-> "", conn |-> NoTask, n |-> 0, raised |-> FALSE,
         before |-> NoTopics, once |-> NoTopics]

NumRegs == 2           \* concurrent register_user requests of one tenant
Regs == 1..NumRegs
Emails == {"a@x", "b@x"}

\* a tenant without users or roles, and no request started
NoKeys == [a |-> "", b1 |-> None, b |-> "", b2 |-> None, done |-> FALSE,
           dashboard |-> <<>>, scheduler |-> <<>>]

NoRegs == [users |-> <<>>, adminRole |-> FALSE, user_roles |-> {},
           r |-> [i \in Regs |-> [pc |-> "none", email |-> "", count |-> 0]]]

InitWs ==
    /\ topics = [t \in {} |-> {}]
    /\ locks = [t \in {} |-> FreeLock]
    /\ pc = [w \in Conns |-> "idle"]
    /\ req = [w \in Conns |-> NoReq]
    /\ tenant_id = [w \in Conns |-> None]
    /\ user_id = [w \in Conns |-> None]
    /\ topic = [w \in Conns |-> None]
    /\ application_state = [w \in Conns |-> "CONNECTING"]
    /\ client_state = [w \in Conns |-> "CONNECTING"]
    /\ peerGone = [w \in Conns |-> FALSE]
    /\ closeCode = [w \in Conns |-> 0]
    /\ inbox = [w \in Conns |-> <<>>]
    /\ rx = NoRx
    /\ nRecv = 0
    /\ bc = [k \in Tasks |-> NoCall]
    /\ nCalls = 0
    /\ pruned = {}

-----------------------------------------------------------------------------
(* BroadcastManager.connect / disconnect (services/realtime.py:54-70) *)

\* self._topics[topic].add(websocket)
AddSubscriber(tp, t, ws) == [tp EXCEPT ![t] = @ \cup {ws}]

DiscardSubscriber_All(tp, t, ws) == [tp EXCEPT ![t] = {}]

DiscardSubscriber_Keep(tp, t, ws) == tp

\* self._topics[topic].discard(websocket)
DiscardSubscriber(tp, t, ws) == [tp EXCEPT ![t] = @ \ {ws}]

\* connect(topic, websocket) up to its first suspension: the topic is ensured,
\* and the add happens at once when the topic lock is free
ConnectCall(w, t) ==
    LET tp == EnsureTopic(topics, t)
        lk == Acquire(TopicLock(locks, t), t, w)
    IN  IF lk[t].holder = w
        THEN /\ topics' = AddSubscriber(tp, t, w)
             /\ locks' = Release(lk, t)
             /\ pc' = [pc EXCEPT ![w] = "subscribed"]
        ELSE /\ topics' = tp
             /\ locks' = lk
             /\ pc' = [pc EXCEPT ![w] = "connect_wait"]

\* the handler's exit: disconnect(topic, websocket), then websocket.close()
\* when `closing` (the `except Exception` branch)
Closed(w, closing) ==
    /\ application_state' =
           IF closing THEN [application_state EXCEPT ![w] = "DISCONNECTED"]
           ELSE application_state
    /\ closeCode' = IF closing THEN [closeCode EXCEPT ![w] = 1000] ELSE closeCode

DisconnectCall(w, closing) ==
    LET t == topic[w] IN
    IF t \notin DOMAIN topics
    THEN /\ UNCHANGED <<topics, locks>>
         /\ pc' = [pc EXCEPT ![w] = "closed"]
         /\ Closed(w, closing)
    ELSE LET lk == Acquire(TopicLock(locks, t), t, w) IN
         IF lk[t].holder = w
         THEN /\ topics' = DiscardSubscriber(topics, t, w)
              /\ locks' = Release(lk, t)
              /\ pc' = [pc EXCEPT ![w] = "closed"]
              /\ Closed(w, closing)
         ELSE /\ locks' = lk
              /\ pc' = [pc EXCEPT ![w] =
                           IF closing THEN "disc_wait_close" ELSE "disc_wait"]
              /\ UNCHANGED <<topics, application_state, closeCode>>

-----------------------------------------------------------------------------
(* BroadcastManager.broadcast (services/realtime.py:73-93) *)

\* broadcast(topic, message, exclude) up to its first suspension
BroadcastCall(k, kind, t, m, ex) ==
    LET tp == EnsureTopic(topics, t)
        lk == Acquire(TopicLock(locks, t), t, k)
        got == lk[t].holder = k
    IN  /\ topics' = tp
        /\ locks' = lk
        /\ bc' = [bc EXCEPT ![k] =
                    [phase |-> IF got THEN "fanout" ELSE "wait",
                     kind |-> kind, topic |-> t, message |-> m, exclude |-> ex,
                     snapshot |-> IF got THEN tp[t] ELSE {},
                     todo |-> IF got THEN tp[t] ELSE {},
                     attempted |-> {}, delivered |-> {}, to_drop |-> {}]]

\* the lock is granted to a waiting broadcast: list(self._topics[topic])
BroadcastResume(k) ==
    /\ bc[k].phase = "wait"
    /\ Holds(k, bc[k].topic)
    /\ bc' = [bc EXCEPT ![k].phase = "fanout",
                        ![k].snapshot = topics[bc[k].topic],
                        ![k].todo = topics[bc[k].topic]]
    /\ UNCHANGED <<topics, locks, pc, req, tenant_id, user_id, topic,
                   application_state, client_state, peerGone, closeCode,
                   inbox, rx, nRecv, nCalls, pruned>>
    /\ UNCHANGED <<authVars, db>>

IsExcluded_Never(ex, ws) == FALSE

\* line 82: exclude is not None and ws is exclude
IsExcluded(ex, ws) == ex # NoTask /\ ws = ex

\* line 85: the liveness check
ReportsDisconnected(ws) ==
    \/ application_state[ws] = "DISCONNECTED"
    \/ client_state[ws] = "DISCONNECTED"

\* line 88: await ws.send_json(payload) raises when json.dumps raises or the
\* transport is broken
SendJsonRaises(ws, m) == ~JsonSerializable(m) \/ peerGone[ws]

BroadcastNext_SkipNew(k, ws) ==
    /\ bc[k].phase = "fanout"
    /\ ws \in bc[k].todo
    /\ IF IsExcluded(bc[k].exclude, ws) \/ pc[ws] = "subscribed"
       THEN /\ bc' = [bc EXCEPT ![k].todo = @ \ {ws}]
            /\ UNCHANGED inbox
       ELSE IF ReportsDisconnected(ws) \/ SendJsonRaises(ws, bc[k].message)
       THEN /\ bc' = [bc EXCEPT ![k].todo = @ \ {ws},
                                ![k].attempted = @ \cup {ws},
                                ![k].to_drop = @ \cup {ws}]
            /\ UNCHANGED inbox
       ELSE /\ bc' = [bc EXCEPT ![k].todo = @ \ {ws},
                                ![k].attempted = @ \cup {ws},
                                ![k].delivered = @ \cup {ws}]
            /\ inbox' = [inbox EXCEPT ![ws] =
                            Append(@, JsonFrame(bc[k].topic, bc[k].message))]
    /\ UNCHANGED <<topics, locks, pc, req, tenant_id, user_id, topic,
                   application_state, client_state, peerGone, closeCode,
                   rx, nRecv, nCalls, pruned>>
    /\ UNCHANGED <<authVars, db>>

BroadcastNext_AbortOnError(k, ws) ==
    /\ bc[k].phase = "fanout"
    /\ ws \in bc[k].todo
    /\ IF IsExcluded(bc[k].exclude, ws)
       THEN /\ bc' = [bc EXCEPT ![k].todo = @ \ {ws}]
            /\ UNCHANGED inbox
       ELSE IF ReportsDisconnected(ws) \/ SendJsonRaises(ws, bc[k].message)
       THEN /\ bc' = [bc EXCEPT ![k].todo = {},
                                ![k].attempted = @ \cup {ws},
                                ![k].to_drop = @ \cup {ws}]
            /\ UNCHANGED inbox
       ELSE /\ bc' = [bc EXCEPT ![k].todo = @ \ {ws},
                                ![k].attempted = @ \cup {ws},
                                ![k].delivered = @ \cup {ws}]
            /\ inbox' = [inbox EXCEPT ![ws] =
                            Append(@, JsonFrame(bc[k].topic, bc[k].message))]
    /\ UNCHANGED <<topics, locks, pc, req, tenant_id, user_id, topic,
                   application_state, client_state, peerGone, closeCode,
                   rx, nRecv, nCalls, pruned>>
    /\ UNCHANGED <<authVars, db>>

\* one iteration of `for ws in list(self._topics[topic])`
BroadcastNext(k, ws) ==
    /\ bc[k].phase = "fanout"
    /\ ws \in bc[k].todo
    /\ IF IsExcluded(bc[k].exclude, ws)
       THEN /\ bc' = [bc EXCEPT ![k].todo = @ \ {ws}]
            /\ UNCHANGED inbox
       ELSE IF ReportsDisconnected(ws) \/ SendJsonRaises(ws, bc[k].message)
       THEN /\ bc' = [bc EXCEPT ![k].todo = @ \ {ws},
                                ![k].attempted = @ \cup {ws},
                                ![k].to_drop = @ \cup {ws}]
            /\ UNCHANGED inbox
       ELSE /\ bc' = [bc EXCEPT ![k].todo = @ \ {ws},
                                ![k].attempted = @ \cup {ws},
                                ![k].delivered = @ \cup {ws}]
            /\ inbox' = [inbox EXCEPT ![ws] =
                            Append(@, JsonFrame(bc[k].topic, bc[k].message))]
    /\ UNCHANGED <<topics, locks, pc, req, tenant_id, user_id, topic,
                   application_state, client_state, peerGone, closeCode,
                   rx, nRecv, nCalls, pruned>>
    /\ UNCHANGED <<authVars, db>>

DropAll_Clear(tp, t, drop) == [tp EXCEPT ![t] = {}]

DropAll_Keep(tp, t, drop) == tp

\* lines 92-93: for ws in to_drop: self._topics[topic].discard(ws)
DropAll(tp, t, drop) == [tp EXCEPT ![t] = @ \ drop]

\* the fan-out is over: prune, release the topic lock, return to the caller
BroadcastFinish(k) ==
    /\ bc[k].phase = "fanout"
    /\ bc[k].todo = {}
    /\ topics' = DropAll(topics, bc[k].topic, bc[k].to_drop)
    /\ pruned' = pruned \cup (bc[k].to_drop \cap topics[bc[k].topic])
    /\ locks' = Release(locks, bc[k].topic)
    /\ bc' = [bc EXCEPT ![k].phase = "returned"]
    /\ pc' = IF k \in Conns THEN [pc EXCEPT ![k] = "active"] ELSE pc
    /\ UNCHANGED <<req, tenant_id, user_id, topic, application_state,
                   client_state, peerGone, closeCode, inbox, rx, nRecv, nCalls>>
    /\ UNCHANGED <<authVars, db>>

-----------------------------------------------------------------------------
(* Connection handlers ws_dashboard / ws_scheduler (api/main.py:371-493) *)

Endpoints == {"dashboard", "scheduler"}

\* (token, X-Tenant-ID header) pairs clients present
WsAttempts ==
    {<<Jwt(t, "u1"), t>> : t \in Tenants} \cup
    {<<NoToken, "t1">>, <<Jwt("t1", "u1"), "t2">>}

\* text frames clients send on each endpoint
DashboardFrames == {"ping", "PING", "hello"}
SchedulerFrames == {"ping", "{\"type\":\"ping\"}", "{\"type\":5}",
                    "{\"type\":\"operation.move\",\"payload\":{\"op\":1}}"}

\* boards clients pass as ?board=
WsBoards == {None, "b1"}

\* a client opens a websocket on one of the two endpoints; websockets are
\* numbered in their order of arrival
ClientConnect(w, ep, att, board) ==
    /\ pc[w] = "idle"
    /\ \A v \in Conns : v < w => pc[v] # "idle"
    /\ pc' = [pc EXCEPT ![w] = "connecting"]
    /\ req' = [req EXCEPT ![w] =
                  [endpoint |-> ep, token |-> att[1], header |-> att[2],
                   board |-> IF ep = "scheduler" THEN board ELSE None]]
    /\ UNCHANGED <<topics, locks, tenant_id, user_id, topic, application_state,
                   client_state, peerGone, closeCode, inbox, rx, nRecv, bc,
                   nCalls, pruned>>
    /\ UNCHANGED <<authVars, db>>

\* lines 383 / 447: await websocket.accept()
Accept(w) ==
    /\ pc[w] = "connecting"
    /\ pc' = [pc EXCEPT ![w] = "authenticating"]
    /\ application_state' = [application_state EXCEPT ![w] = "CONNECTED"]
    /\ client_state' = [client_state EXCEPT ![w] = "CONNECTED"]
    /\ UNCHANGED <<topics, locks, req, tenant_id, user_id, topic, peerGone,
                   closeCode, inbox, rx, nRecv, bc, nCalls, pruned>>
    /\ UNCHANGED <<authVars, db>>

Authenticate_NoReturn(w) ==
    /\ pc[w] = "authenticating"
    /\ LET r == ValidateWs(req[w].token, req[w].header) IN
       /\ pc' = [pc EXCEPT ![w] = "authenticated"]
       /\ tenant_id' = [tenant_id EXCEPT ![w] = r.tenant_id]
       /\ user_id' = [user_id EXCEPT ![w] = r.user_id]
       /\ closeCode' = [closeCode EXCEPT ![w] = r.code]
       /\ application_state' =
              [application_state EXCEPT ![w] =
                  IF r.ok THEN @ ELSE "DISCONNECTED"]
    /\ UNCHANGED <<topics, locks, req, topic, client_state, peerGone, inbox,
                   rx, nRecv, bc, nCalls, pruned>>
    /\ UNCHANGED <<authVars, db>>

\* lines 384-387 / 448-451: a rejected attempt is closed with the code and the
\* handler returns; an admitted one keeps (tenant_id, user_id)
Authenticate(w) ==
    /\ pc[w] = "authenticating"
    /\ LET r == ValidateWs(req[w].token, req[w].header) IN
       IF r.ok
       THEN /\ pc' = [pc EXCEPT ![w] = "authenticated"]
            /\ tenant_id' = [tenant_id EXCEPT ![w] = r.tenant_id]
            /\ user_id' = [user_id EXCEPT ![w] = r.user_id]
            /\ UNCHANGED <<application_state, closeCode>>
       ELSE /\ pc' = [pc EXCEPT ![w] = "rejected"]
            /\ closeCode' = [closeCode EXCEPT ![w] = r.code]
            /\ application_state' =
                   [application_state EXCEPT ![w] = "DISCONNECTED"]
            /\ UNCHANGED <<tenant_id, user_id>>
    /\ UNCHANGED <<topics, locks, req, topic, client_state, peerGone, inbox,
                   rx, nRecv, bc, nCalls, pruned>>
    /\ UNCHANGED <<authVars, db>>

\* lines 389 / 453-454: the topic of the connection
HandlerTopic(w) ==
    IF req[w].endpoint = "dashboard" THEN dashboard_topic(tenant_id[w])
    ELSE scheduler_topic(tenant_id[w], req[w].board)

\* lines 390 / 455: await broadcast_manager.connect(topic, websocket)
Subscribe(w) ==
    /\ pc[w] = "authenticated"
    /\ topic' = [topic EXCEPT ![w] = HandlerTopic(w)]
    /\ ConnectCall(w, HandlerTopic(w))
    /\ UNCHANGED <<req, tenant_id, user_id, application_state, client_state,
                   peerGone, closeCode, inbox, rx, nRecv, bc, nCalls, pruned>>
    /\ UNCHANGED <<authVars, db>>

\* the topic lock is granted to a waiting connect
ConnectResume(w) ==
    /\ pc[w] = "connect_wait"
    /\ Holds(w, topic[w])
    /\ topics' = AddSubscriber(topics, topic[w], w)
    /\ locks' = Release(locks, topic[w])
    /\ pc' = [pc EXCEPT ![w] = "subscribed"]
    /\ UNCHANGED <<req, tenant_id, user_id, topic, application_state,
                   client_state, peerGone, closeCode, inbox, rx, nRecv, bc,
                   nCalls, pruned>>
    /\ UNCHANGED <<authVars, db>>

\* lines 402 / 466: the initial kpi.snapshot envelope
SnapshotEnvelope(w) ==
    WsEnvelopeDump("kpi.snapshot", KpiSnapshotDump, req[w].board)

InitialSnapshot_Fatal(w, computed) ==
    /\ pc[w] = "subscribed"
    /\ pc' = [pc EXCEPT ![w] =
                 IF computed /\ ~SendJsonRaises(w, SnapshotEnvelope(w))
                 THEN "active" ELSE "closed"]
    /\ inbox' = IF computed /\ ~SendJsonRaises(w, SnapshotEnvelope(w))
                THEN [inbox EXCEPT ![w] = Append(@, JsonFrame("", SnapshotEnvelope(w)))]
                ELSE inbox
    /\ UNCHANGED <<topics, locks, req, tenant_id, user_id, topic,
                   application_state, client_state, peerGone, closeCode, rx,
                   nRecv, bc, nCalls, pruned>>
    /\ UNCHANGED <<authVars, db>>

\* lines 392-405 / 457-469: compute and push the initial snapshot; any
\* exception (the computation, json.dumps, the transport) is logged only
InitialSnapshot(w, computed) ==
    /\ pc[w] = "subscribed"
    /\ pc' = [pc EXCEPT ![w] = "active"]
    /\ inbox' = IF computed /\ ~SendJsonRaises(w, SnapshotEnvelope(w))
                THEN [inbox EXCEPT ![w] = Append(@, JsonFrame("", SnapshotEnvelope(w)))]
                ELSE inbox
    /\ UNCHANGED <<topics, locks, req, tenant_id, user_id, topic,
                   application_state, client_state, peerGone, closeCode, rx,
                   nRecv, bc, nCalls, pruned>>
    /\ UNCHANGED <<authVars, db>>

\* lines 408-413: one iteration of the ws_dashboard loop on a text frame
DashboardReceive(w, text) ==
    /\ pc[w] = "active"
    /\ req[w].endpoint = "dashboard"
    /\ ~peerGone[w]
    /\ nRecv < MaxFrames
    /\ nRecv' = nRecv + 1
    /\ rx' = [conn |-> w, frame |-> text]
    /\ inbox' = IF IsDashboardPing(text)
                THEN [inbox EXCEPT ![w] = Append(@, Pong)]
                ELSE inbox
    /\ UNCHANGED <<topics, locks, pc, req, tenant_id, user_id, topic,
                   application_state, client_state, peerGone, closeCode, bc,
                   nCalls, pruned>>
    /\ UNCHANGED <<authVars, db>>

\* lines 472-493: one iteration of the ws_scheduler loop on a text frame
SchedulerReceive(w, text) ==
    /\ pc[w] = "active"
    /\ req[w].endpoint = "scheduler"
    /\ ~peerGone[w]
    /\ nRecv < MaxFrames
    /\ nRecv' = nRecv + 1
    /\ rx' = [conn |-> w, frame |-> text]
    /\ LET step == SchedulerStep(text) IN
       CASE step.do = "pong" ->
              /\ inbox' = [inbox EXCEPT ![w] = Append(@, Pong)]
              /\ UNCHANGED <<topics, locks, pc, bc, application_state, closeCode>>
         [] step.do = "ignore" ->
              UNCHANGED <<topics, locks, pc, bc, inbox, application_state, closeCode>>
         [] step.do = "broadcast" ->
              /\ BroadcastCall(w, "rebroadcast", topic[w],
                               WsEnvelopeDump(step.type, step.payload, req[w].board), w)
              /\ pc' = [pc EXCEPT ![w] = "broadcasting"]
              /\ UNCHANGED <<inbox, application_state, closeCode>>
         [] step.do = "raise" ->
              /\ DisconnectCall(w, TRUE)
              /\ UNCHANGED <<bc, inbox>>
    /\ UNCHANGED <<req, tenant_id, user_id, topic, client_state, peerGone,
                   nCalls, pruned>>
    /\ UNCHANGED <<authVars, db>>

\* the client closes its end, or the network drops
PeerClose(w) ==
    /\ pc[w] \in {"subscribed", "active", "broadcasting"}
    /\ ~peerGone[w]
    /\ peerGone' = [peerGone EXCEPT ![w] = TRUE]
    /\ UNCHANGED <<topics, locks, pc, req, tenant_id, user_id, topic,
                   application_state, client_state, closeCode, inbox, rx,
                   nRecv, bc, nCalls, pruned>>
    /\ UNCHANGED <<authVars, db>>

\* lines 414-415 / 488-489: the receive raises WebSocketDisconnect
ReceiveDisconnect(w) ==
    /\ pc[w] = "active"
    /\ peerGone[w]
    /\ client_state' = [client_state EXCEPT ![w] = "DISCONNECTED"]
    /\ DisconnectCall(w, FALSE)
    /\ UNCHANGED <<req, tenant_id, user_id, topic, peerGone, inbox, rx, nRecv,
                   bc, nCalls, pruned>>
    /\ UNCHANGED <<authVars, db>>

\* the topic lock is granted to a waiting disconnect
DisconnectResume(w) ==
    /\ pc[w] \in {"disc_wait", "disc_wait_close"}
    /\ Holds(w, topic[w])
    /\ topics' = DiscardSubscriber(topics, topic[w], w)
    /\ locks' = Release(locks, topic[w])
    /\ pc' = [pc EXCEPT ![w] = "closed"]
    /\ Closed(w, pc[w] = "disc_wait_close")
    /\ UNCHANGED <<req, tenant_id, user_id, topic, client_state, peerGone,
                   inbox, rx, nRecv, bc, nCalls, pruned>>
    /\ UNCHANGED <<authVars, db>>

-----------------------------------------------------------------------------
(* Publishers (services/realtime.py:96-106, services/production.py:44-56) *)

Events == {"work_order.created"}

\* publish_kpi_snapshot(tenant_id, snapshot)
PublishKpiSnapshot(p, t) ==
    /\ Idle(p)
    /\ nCalls < MaxCalls
    /\ nCalls' = nCalls + 1
    /\ BroadcastCall(p, "kpi", dashboard_topic(t),
                     WsEnvelopeDump("kpi.snapshot", KpiSnapshotDump, None), NoTask)
    /\ UNCHANGED <<pc, req, tenant_id, user_id, topic, application_state,
                   client_state, peerGone, closeCode, inbox, rx, nRecv, pruned>>
    /\ UNCHANGED <<authVars, db>>

PublishSchedulerEvent_Boardless(p, t, e, b) ==
    /\ Idle(p)
    /\ nCalls < MaxCalls
    /\ nCalls' = nCalls + 1
    /\ BroadcastCall(p, "event", scheduler_topic(t, None),
                     WsEnvelopeDump("scheduler." \o e, SchedulerEventDump(e, b), b),
                     NoTask)
    /\ UNCHANGED <<pc, req, tenant_id, user_id, topic, application_state,
                   client_state, peerGone, closeCode, inbox, rx, nRecv, pruned>>
    /\ UNCHANGED <<authVars, db>>

\* publish_scheduler_event(tenant_id, event)
PublishSchedulerEvent(p, t, e, b) ==
    /\ Idle(p)
    /\ nCalls < MaxCalls
    /\ nCalls' = nCalls + 1
    /\ BroadcastCall(p, "event", scheduler_topic(t, b),
                     WsEnvelopeDump("scheduler." \o e, SchedulerEventDump(e, b), b),
                     NoTask)
    /\ UNCHANGED <<pc, req, tenant_id, user_id, topic, application_state,
                   client_state, peerGone, closeCode, inbox, rx, nRecv, pruned>>
    /\ UNCHANGED <<authVars, db>>

\* a direct call broadcast(topic, message, exclude) with a plain dict
DirectBroadcast(p, t, ex) ==
    /\ Idle(p)
    /\ nCalls < MaxCalls
    /\ nCalls' = nCalls + 1
    /\ BroadcastCall(p, "direct", t, PlainDict("note"), ex)
    /\ UNCHANGED <<pc, req, tenant_id, user_id, topic, application_state,
                   client_state, peerGone, closeCode, inbox, rx, nRecv, pruned>>
    /\ UNCHANGED <<authVars, db>>

-----------------------------------------------------------------------------
(* Specification of the WebSocket layer *)

-----------------------------------------------------------------------------
(* Database sessions, pooled connections and the app.tenant_id setting *)

NumSessions == 2
MaxDbConns == 2
MaxStmts == 2

Sessions == 1..NumSessions
DbConns == 1..MaxDbConns
NoConn == 0

Unset == "<unset>"     \* current_setting('app.tenant_id', true) on a fresh connection
Empty == ""            \* the value tenant_context resets to

\* an AsyncSession made by the session maker: no connection until first use
NewSession ==
    [pc |-> "none", tenant |-> None, conn |-> NoConn, n |-> 0,
     seen |-> {}, seen_out |-> {}]

\* the engine before any session has been used
DbIdle ==
    [guc |-> [c \in DbConns |-> Unset],
     txguc |-> [c \in DbConns |-> Unset],
     txn |-> [c \in DbConns |-> "none"],
     pool |-> <<>>,
     created |-> 0,
     sess |-> [s \in Sessions |-> NewSession]]

InitAuthIdle ==
    /\ authIn = NoAuthIn /\ authOut = Reject(0) /\ op = NoOp /\ reg = NoRegs
    /\ keys = NoKeys
InitDbIdle == db = DbIdle

Init == InitWs /\ InitAuthIdle /\ InitDbIdle

Next ==
    \/ \E w \in Conns, ep \in Endpoints, att \in WsAttempts, b \in WsBoards :
           ClientConnect(w, ep, att, b)
    \/ \E w \in Conns : Accept(w)
    \/ \E w \in Conns : Authenticate(w)
    \/ \E w \in Conns : Subscribe(w)
    \/ \E w \in Conns : ConnectResume(w)
    \/ \E w \in Conns, computed \in BOOLEAN : InitialSnapshot(w, computed)
    \/ \E w \in Conns, text \in DashboardFrames : DashboardReceive(w, text)
    \/ \E w \in Conns, text \in SchedulerFrames : SchedulerReceive(w, text)
    \/ \E w \in Conns : PeerClose(w)
    \/ \E w \in Conns : ReceiveDisconnect(w)
    \/ \E w \in Conns : DisconnectResume(w)
    \/ \E k \in Tasks : BroadcastResume(k)
    \/ \E k \in Tasks, ws \in Conns : BroadcastNext(k, ws)
    \/ \E k \in Tasks : BroadcastFinish(k)
    \/ \E p \in Pubs, t \in Tenants : PublishKpiSnapshot(p, t)
    \/ \E p \in Pubs, t \in Tenants, e \in Events, b \in WsBoards :
           PublishSchedulerEvent(p, t, e, b)
    \/ \E p \in Pubs, t \in DOMAIN topics, ex \in Conns \cup {NoTask} :
           DirectBroadcast(p, t, ex)

Spec == Init /\ [][Next]_vars

-----------------------------------------------------------------------------
(* Properties of the WebSocket layer, checked under Spec *)

Range(q) == {q[i] : i \in 1..Len(q)}

\* frames of a client's inbox that came from a broadcast to a topic
BroadcastFrames(w) == {f \in Range(inbox[w]) : "topic" \in DOMAIN f /\ f.topic # ""}

Members(w) == {t \in DOMAIN topics : w \in topics[t]}

\* C1: a connection authenticated for tenant A is never a member of a topic
\* derived for another tenant B and is never delivered a message that was
\* broadcast to a topic of B.
C1_TenantIsolation ==
    \A w \in Conns : \A B \in Tenants :
        (tenant_id[w] # None /\ tenant_id[w] # B) =>
            /\ Members(w) \cap TenantTopics(B) = {}
            /\ \A f \in BroadcastFrames(w) : f.topic \notin TenantTopics(B)
            /\ \A k \in Tasks : bc[k].topic \in TenantTopics(B) =>
                                    w \notin bc[k].delivered

\* two tenants are subscribed at once and a broadcast has been delivered
C1_Witness ==
    \E w \in Conns, v \in Conns :
        /\ tenant_id[w] = "t1" /\ tenant_id[v] = "t2"
        /\ Members(w) # {} /\ Members(v) # {}
        /\ BroadcastFrames(w) # {}

\* C4: an attempt with no token and a tenant header is closed with 4401, an
\* attempt whose token decodes but names another tenant than the header is
\* closed with 4403, and a rejected connection is in no topic.
C4_RejectionCodes ==
    \A w \in Conns :
        LET tok == req[w].token
            hdr == req[w].header
            decided == pc[w] \notin {"idle", "connecting", "authenticating"}
        IN  /\ (decided /\ tok = NoToken /\ Truthy(hdr)) =>
                   (pc[w] = "rejected" /\ closeCode[w] = 4401)
            /\ (decided /\ tok.form = "jwt" /\ tok.tenant_id # None /\ Truthy(hdr)
                  /\ tok.tenant_id # hdr) =>
                   (pc[w] = "rejected" /\ closeCode[w] = 4403)
            /\ ((tok = NoToken \/ (tok.form = "jwt" /\ tok.tenant_id # hdr))
                  \/ pc[w] = "rejected") => Members(w) = {}

\* one attempt was closed with 4401 and another with 4403 while a topic exists
C4_Witness ==
    /\ \E w \in Conns : pc[w] = "rejected" /\ closeCode[w] = 4401
                        /\ req[w].token = NoToken
    /\ \E w \in Conns : pc[w] = "rejected" /\ closeCode[w] = 4403

\* C6: broadcast(topic, msg, exclude=C) never attempts delivery of msg to C:
\* no iteration of the call's fan-out records an attempt on C or puts a
\* frame in C's inbox.
C6_Exclusion ==
    [][\A k \in Tasks :
         LET x == bc[k].exclude IN
         (bc[k].phase = "fanout" /\ x # NoTask /\ bc'[k].todo # bc[k].todo) =>
             /\ x \notin bc'[k].attempted
             /\ x \notin bc'[k].delivered
             /\ inbox'[x] = inbox[x]]_vars

\* a broadcast returned that skipped the excluded member of the topic and
\* delivered to another member
C6_Witness ==
    \E k \in Tasks :
        /\ bc[k].phase = "returned"
        /\ bc[k].exclude \in bc[k].snapshot
        /\ bc[k].delivered # {}

\* connect calls on topic t that have returned, and disconnect calls that have
ConnectsReturned(t) ==
    {w \in Conns : topic[w] = t /\ pc[w] \in {"subscribed", "active",
                       "broadcasting", "disc_wait", "disc_wait_close", "closed"}}
DisconnectsReturned(t) == {w \in Conns : topic[w] = t /\ pc[w] = "closed"}

\* C7: with N connect calls returned on a topic and k of those connections
\* disconnected (and none pruned by a broadcast), the topic has exactly N-k
\* subscribers, whatever the interleaving.
C7_MembershipAccounting ==
    \A t \in DOMAIN topics :
        (pruned \cap ConnectsReturned(t) = {}) =>
            Cardinality(topics[t]) =
                Cardinality(ConnectsReturned(t)) - Cardinality(DisconnectsReturned(t))

\* two connects returned on one topic, one of them after a broadcast on the
\* topic had taken its snapshot, and nothing was removed: two members
C7_Witness ==
    \E t \in DOMAIN topics :
        /\ Cardinality(ConnectsReturned(t)) = NumConns
        /\ DisconnectsReturned(t) = {}
        /\ pruned = {}
        /\ Cardinality(topics[t]) = NumConns
        /\ \E k \in Pubs : bc[k].phase = "returned" /\ bc[k].topic = t
                           /\ Cardinality(bc[k].snapshot) < NumConns

\* C8: a subscriber whose delivery failed during a broadcast is out of the
\* topic when that call returns, and no broadcast that runs afterwards
\* attempts delivery to it.
C8_DeadConnectionPruning ==
    \A k \in Tasks :
        /\ bc[k].phase = "returned" => bc[k].to_drop \cap topics[bc[k].topic] = {}
        /\ bc[k].phase = "fanout" => bc[k].snapshot \cap pruned = {}

\* a broadcast returned having dropped a member, and a later broadcast to the
\* same topic is running over the remaining members
C8_Witness ==
    \E k \in Tasks, k2 \in Tasks :
        /\ k # k2
        /\ bc[k].phase = "returned" /\ bc[k].to_drop # {}
        /\ bc[k2].phase = "fanout" /\ bc[k2].topic = bc[k].topic
        /\ bc[k2].snapshot # {}
        /\ bc[k2].snapshot \cap bc[k].to_drop = {}

\* a subscriber whose socket is open and whose transport accepts frames
Healthy(w) ==
    /\ ~peerGone[w]
    /\ application_state[w] = "CONNECTED"
    /\ client_state[w] = "CONNECTED"

\* C9: when a scheduler client sends {type: t, payload: p}, t not "ping",
\* every other subscriber of the topic receives the envelope of type
\* "scheduler." + t with payload p and channel = board, and the sender does not.
C9_EnvelopeRoundTrip ==
    \A w \in Conns :
        (bc[w].phase = "returned" /\ bc[w].kind = "rebroadcast") =>
            /\ w \notin bc[w].delivered
            /\ bc[w].message.channel = req[w].board
            /\ rx.conn = w =>
                   /\ bc[w].message.type = "scheduler." \o JsonLoads(rx.frame).type.v
                   /\ bc[w].message.payload = PayloadOrEmpty(JsonLoads(rx.frame).payload)
            /\ \A m \in bc[w].snapshot \ {w} :
                   Healthy(m) =>
                       /\ m \in bc[w].delivered
                       /\ JsonFrame(bc[w].topic, bc[w].message) \in Range(inbox[m])

PingJson == "{\"type\":\"ping\"}"

\* the step is a receive-loop iteration of connection w
Receives(w) == nRecv' # nRecv /\ rx'.conn = w

\* the reply to a ping: "pong" is sent, nothing is broadcast, no topic
\* changes, and the handler is back in its receive loop, still subscribed
PongOnly(w) ==
    /\ inbox' = [inbox EXCEPT ![w] = Append(@, Pong)]
    /\ bc' = bc
    /\ topics' = topics
    /\ pc'[w] = "active"
    /\ w \in topics'[topic[w]] <=> w \in topics[topic[w]]

\* C10 as stated: on both endpoints the literal text "ping" is answered by
\* exactly "pong", with no broadcast, and the connection stays in its loop.
C10_PingLiteralBothEndpoints ==
    [][\A w \in Conns : (Receives(w) /\ rx'.frame = "ping") => PongOnly(w)]_vars

\* C10 amended: the text "ping" (in any letter case) on /ws/dashboard, and the
\* JSON message {"type": "ping"} on /ws/scheduler, are answered by exactly
\* "pong", with no broadcast, and the connection stays in its loop.
C10_PingKeepalive ==
    [][\A w \in Conns :
         (Receives(w) /\
            \/ req[w].endpoint = "dashboard" /\ rx'.frame \in {"ping", "PING"}
            \/ req[w].endpoint = "scheduler" /\ rx'.frame = PingJson)
         => PongOnly(w)]_vars

\* a dashboard client and a scheduler client have each been answered "pong"
C10_Witness ==
    \E w \in Conns :
        /\ rx.conn = w /\ rx.frame = PingJson
        /\ req[w].endpoint = "scheduler"
        /\ pc[w] = "active"
        /\ Pong \in Range(inbox[w])
        /\ w \in topics[topic[w]]

-----------------------------------------------------------------------------
(* Error containment and connection life cycle, checked under Spec *)

\* the members of the call's snapshot other than the excluded one
Recipients(k) == bc[k].snapshot \ {bc[k].exclude}

\* C13: a delivery that fails during a broadcast does not stop the call:
\* every other non-excluded member of the snapshot is still attempted (it is
\* delivered to or scheduled for removal), and the call returns to its caller,
\* whose handler goes on with its receive loop.
C13_DeliveryErrorsContained ==
    \A k \in Tasks :
        /\ bc[k].phase = "fanout" =>
               Recipients(k) \subseteq
                   (bc[k].todo \cup bc[k].delivered \cup bc[k].to_drop)
        /\ bc[k].phase = "returned" =>
               /\ bc[k].attempted = Recipients(k)
               /\ bc[k].delivered \cup bc[k].to_drop = Recipients(k)
               /\ k \in Conns => pc[k] # "broadcasting"

\* a broadcast returned in which one delivery failed and another member of
\* the snapshot received the message
C13_Witness ==
    \E k \in Tasks :
        /\ bc[k].phase = "returned"
        /\ bc[k].to_drop # {}
        /\ bc[k].delivered # {}

\* a scheduler frame that is not the expected envelope: not JSON, not a JSON
\* object, or an object whose type is absent or not a string
Malformed(text) ==
    LET data == JsonLoads(text) IN
    ~data.ok \/ ~data.isDict \/ data.type.t # "str"

\* C14: a malformed message on the scheduler feed is dropped: nothing is
\* broadcast or sent, and the connection stays subscribed, open and in its
\* receive loop.
C14_MalformedNeverFatal ==
    [][\A w \in Conns :
         (Receives(w) /\ req[w].endpoint = "scheduler" /\ Malformed(rx'.frame)) =>
             /\ bc' = bc
             /\ inbox' = inbox
             /\ topics' = topics
             /\ pc'[w] = "active"
             /\ application_state'[w] = "CONNECTED"]_vars

\* the step ends connection w's initial snapshot block
SnapshotDone(w) == pc[w] = "subscribed" /\ pc'[w] # "subscribed"

\* C15: whether or not the initial kpi.snapshot was computed and pushed, the
\* handler enters its receive loop with the connection open and the topics
\* untouched.
C15_SnapshotFailureNotFatal ==
    [][\A w \in Conns :
         SnapshotDone(w) =>
             /\ pc'[w] = "active"
             /\ topics' = topics
             /\ locks' = locks
             /\ application_state' = application_state
             /\ closeCode' = closeCode]_vars

\* a dashboard client and a scheduler client are both in their receive loops,
\* subscribed, without having been pushed a snapshot
C15_Witness ==
    \E d, sc \in Conns :
        /\ req[d].endpoint = "dashboard" /\ req[sc].endpoint = "scheduler"
        /\ \A w \in {d, sc} :
               /\ pc[w] = "active"
               /\ inbox[w] = <<>>
               /\ w \in topics[topic[w]]

\* the event loop runs every task that is ready: a receive that has a
\* disconnect to report, a coroutine that was granted the lock it waits for,
\* and a fan-out that can take its next step
Fairness ==
    /\ \A w \in Conns : WF_vars(ReceiveDisconnect(w))
    /\ \A w \in Conns : WF_vars(ConnectResume(w))
    /\ \A w \in Conns : WF_vars(DisconnectResume(w))
    /\ \A k \in Tasks : WF_vars(BroadcastResume(k))
    /\ \A k \in Tasks : WF_vars(\E ws \in Conns : BroadcastNext(k, ws))
    /\ \A k \in Tasks : WF_vars(BroadcastFinish(k))

SpecLive == Init /\ [][Next]_vars /\ Fairness

\* the receive loop of a subscribed connection has ended or is bound to end:
\* the peer is gone while the handler is in its loop, or the handler is
\* already in one of its except branches
LoopEnded(w) ==
    \/ pc[w] = "active" /\ peerGone[w]
    \/ pc[w] \in {"disc_wait", "disc_wait_close", "closed"}

TransportClosed(w) ==
    \/ application_state[w] = "DISCONNECTED"
    \/ client_state[w] = "DISCONNECTED"

\* C16: when a subscribed connection's receive loop ends, the connection is
\* eventually out of its topic with its transport closed, and a connection
\* whose handler has terminated is a member of no topic.
C16_CleanupOnLoopEnd ==
    /\ [](\A w \in Conns : pc[w] = "closed" => Members(w) = {})
    /\ \A w \in Conns :
           LoopEnded(w) ~>
               (pc[w] = "closed" /\ Members(w) = {} /\ TransportClosed(w))

\* a handler whose loop ended by an exception waits for the topic lock, held
\* by a broadcast, before it can remove its connection
C16_Witness ==
    \E w \in Conns :
        /\ pc[w] = "disc_wait_close"
        /\ w \in topics[topic[w]]
        /\ \E k \in Tasks : k # w /\ Holds(k, topic[w])

\* the connection state of the contract that a handler position belongs to
Phase(p) ==
    CASE p = "idle" -> "NotConnected"
      [] p = "connecting" -> "Connecting"
      [] p \in {"authenticating", "authenticated", "connect_wait"} -> "Authenticating"
      [] p = "rejected" -> "Rejected"
      [] p = "subscribed" -> "Subscribed"
      [] p \in {"active", "broadcasting", "disc_wait", "disc_wait_close"} -> "Active"
      [] p = "closed" -> "Closed"

LifeCycle ==
    {<<"NotConnected", "Connecting">>, <<"Connecting", "Authenticating">>,
     <<"Authenticating", "Rejected">>, <<"Authenticating", "Subscribed">>,
     <<"Subscribed", "Active">>, <<"Active", "Closed">>}

\* the authenticator admitted the connection
AuthSucceeded(w) ==
    /\ tenant_id[w] # None /\ user_id[w] # None
    /\ closeCode[w] \notin {4401, 4403}

\* C17: a connection moves only along Connecting -> Authenticating ->
\* Rejected, or Connecting -> Authenticating -> Subscribed -> Active ->
\* Closed; Rejected and Closed are never left; a connection is in a topic only
\* after its authentication succeeded; and a client message is taken only by
\* a handler that is in its receive loop, after subscription.
C17_ConnectionLifeCycle ==
    /\ [][\A w \in Conns :
            /\ Phase(pc'[w]) # Phase(pc[w]) =>
                   <<Phase(pc[w]), Phase(pc'[w])>> \in LifeCycle
            /\ Receives(w) => Phase(pc[w]) = "Active"]_vars
    /\ [](\A w \in Conns :
            /\ Members(w) # {} =>
                   AuthSucceeded(w) /\ Phase(pc[w]) \in {"Subscribed", "Active"}
            /\ rx.conn = w => Phase(pc[w]) \in {"Active", "Closed"})

\* one connection went through its whole life, a message of it was processed,
\* and another connection was rejected
C17_Witness ==
    \E w, v \in Conns :
        /\ pc[w] = "closed" /\ rx.conn = w
        /\ pc[v] = "rejected"

\* the topic the contract assigns to a connection: the dashboard topic of its
\* tenant, or the scheduler topic of its tenant and board
ContractTopic(w) ==
    IF req[w].endpoint = "dashboard" THEN "dashboard:" \o tenant_id[w]
    ELSE IF req[w].board \in {None, ""} THEN "scheduler:" \o tenant_id[w]
    ELSE "scheduler:" \o tenant_id[w] \o ":" \o req[w].board

\* C18: a connection is a member of at most one topic, the one computed at
\* its subscription from its tenant (and board), and the topic of a
\* connection never changes afterwards.
C18_SingleTopicMembership ==
    /\ [](\A w \in Conns :
            /\ Cardinality(Members(w)) <= 1
            /\ Members(w) \subseteq {topic[w]}
            /\ topic[w] # None => topic[w] = ContractTopic(w))
    /\ [][\A w \in Conns : topic[w] # None => topic'[w] = topic[w]]_vars

\* a scheduler client on board b1 and a dashboard client are each a member of
\* their own topic and in their receive loops
C18_Witness ==
    \E w, v \in Conns :
        /\ req[w].endpoint = "scheduler" /\ req[w].board = "b1"
        /\ req[v].endpoint = "dashboard"
        /\ pc[w] = "active" /\ pc[v] = "active"
        /\ Members(w) = {"scheduler:" \o tenant_id[w] \o ":b1"}
        /\ Members(v) = {"dashboard:" \o tenant_id[v]}

\* broadcast call k is between taking its snapshot and removing its dead
\* members on topic t
InFanout(k, t) == bc[k].phase = "fanout" /\ bc[k].topic = t

\* C20: a topic has one lock and one subscriber set; a broadcast holds the
\* topic's lock for its whole fan-out-and-prune pass, no two broadcasts are in
\* that pass on one topic at once, and from a broadcast's snapshot to its
\* prune the membership of the topic is changed by nobody else.
C20_TopicMutualExclusion ==
    /\ [](/\ DOMAIN locks = DOMAIN topics
          /\ \A k \in Tasks :
                bc[k].phase = "fanout" =>
                    /\ Holds(k, bc[k].topic)
                    /\ topics[bc[k].topic] = bc[k].snapshot
                    /\ \A k2 \in Tasks \ {k} : ~InFanout(k2, bc[k].topic))
    /\ [][\A t \in DOMAIN topics :
            topics'[t] # topics[t] =>
                \A k \in Tasks : InFanout(k, t) => bc'[k].phase = "returned"]_vars

\* a handler's disconnect waits for the topic lock while a broadcast, having
\* delivered to one member, is still in its fan-out over that topic
C20_Witness ==
    \E k \in Tasks, w \in Conns :
        /\ InFanout(k, topic[w])
        /\ bc[k].delivered # {}
        /\ pc[w] \in {"disc_wait", "disc_wait_close"}
        /\ w \in topics[topic[w]]

\* the topic locks task k holds, and the topic locks it waits for
HeldLocks(k) == {t \in DOMAIN locks : locks[t].holder = k}
AwaitedLocks(k) == {t \in DOMAIN locks : k \in Range(locks[t].waiters)}

\* task k is inside a connect, disconnect or broadcast call
InConnect(k) == k \in Conns /\ pc[k] = "connect_wait"
InDisconnect(k) == k \in Conns /\ pc[k] \in {"disc_wait", "disc_wait_close"}
InBroadcast(k) == bc[k].phase \in {"wait", "fanout"}
InCall(k) == InConnect(k) \/ InDisconnect(k) \/ InBroadcast(k)

\* C21: no task holds two topic locks or holds one while it waits for
\* another, a task outside every manager call holds and awaits no lock, and,
\* with every delivery attempt returning or raising, every connect, disconnect
\* and broadcast call completes: the calls in progress drain, again and again.
C21_NoDeadlock ==
    /\ [](\A k \in Tasks :
            /\ Cardinality(HeldLocks(k) \cup AwaitedLocks(k)) <= 1
            /\ ~InCall(k) => HeldLocks(k) \cup AwaitedLocks(k) = {})
    /\ []<>(\A k \in Tasks : ~InCall(k))

\* a connect and a broadcast both queue for a topic lock that a third call,
\* whose delivery raised, still holds
C21_Witness ==
    \E k \in Tasks, k2 \in Tasks, w \in Conns :
        /\ k # k2 /\ w \notin {k, k2}
        /\ bc[k].phase = "fanout"
        /\ bc[k].to_drop # {}
        /\ bc[k2].phase = "wait"
        /\ InConnect(w)
        /\ {k2, w} \subseteq Range(locks[bc[k].topic].waiters)

\* the members of topic t in a map of topics (none for a topic not created)
MembersOf(tp, t) == IF t \in DOMAIN tp THEN tp[t] ELSE {}

\* the handler of w finishes its disconnect in this step
DisconnectReturns(w) == pc[w] # "closed" /\ pc'[w] = "closed"

\* broadcast call k prunes and returns in this step
BroadcastReturns(k) == bc[k].phase = "fanout" /\ bc'[k].phase = "returned"

\* C22: a step that removes connections from a topic is either the disconnect
\* of one handler, which removes that connection only, or the prune of one
\* broadcast, which removes only connections it marked dead in its own topic;
\* every other connection keeps its membership in every topic, and no step of
\* a broadcast adds a member to any topic.
C22_RemovalIsLocal ==
    [][\A t \in DOMAIN topics' :
          LET removed == MembersOf(topics, t) \ topics'[t]
              added == topics'[t] \ MembersOf(topics, t)
          IN  /\ removed # {} =>
                    \/ \E w \in Conns :
                          /\ DisconnectReturns(w)
                          /\ removed = {w}
                          /\ t = topic[w]
                    \/ \E k \in Tasks :
                          /\ BroadcastReturns(k)
                          /\ removed \subseteq bc[k].to_drop
                          /\ t = bc[k].topic
              /\ removed # {} =>
                    \A t2 \in DOMAIN topics' \ {t} :
                        topics'[t2] = MembersOf(topics, t2)
              /\ bc' # bc => added = {}]_vars

\* a broadcast pruned one member of a topic and the topic's other member is
\* still subscribed
C22_Witness ==
    \E w \in pruned, v \in Conns :
        /\ v # w
        /\ topic[v] = topic[w]
        /\ w \notin topics[topic[w]]
        /\ v \in topics[topic[v]]
        /\ pc[v] = "active"

\* the connections a publish_kpi_snapshot for tenant t may reach, and those a
\* publish_scheduler_event for tenant t with board b may reach
DashboardSubscribers(t) ==
    {w \in Conns : req[w].endpoint = "dashboard" /\ tenant_id[w] = t}
SchedulerSubscribers(t, b) ==
    {w \in Conns : /\ req[w].endpoint = "scheduler"
                   /\ tenant_id[w] = t
                   /\ IF Truthy(b) THEN req[w].board = b
                      ELSE ~Truthy(req[w].board)}

\* C23: a publish_kpi_snapshot call carries a "kpi.snapshot" envelope to the
\* dashboard topic of its tenant and attempts delivery to dashboard
\* subscribers of that tenant only; a publish_scheduler_event call carries a
\* "scheduler.<event>" envelope whose channel is the event's board to the
\* scheduler topic of that tenant and board and attempts delivery only to
\* scheduler subscribers of that tenant and board (the board-less ones when
\* the event has no board).
C23_PublishTargets ==
    \A k \in Tasks :
        /\ bc[k].kind = "kpi" =>
              \E t \in Tenants :
                  /\ bc[k].topic = dashboard_topic(t)
                  /\ bc[k].message.type = "kpi.snapshot"
                  /\ bc[k].message.channel = None
                  /\ \A t2 \in Tenants, b \in Boards :
                         bc[k].topic # scheduler_topic(t2, b)
                  /\ bc[k].attempted \subseteq DashboardSubscribers(t)
        /\ bc[k].kind = "event" =>
              \E t \in Tenants, e \in Events :
                  /\ bc[k].topic = scheduler_topic(t, bc[k].message.channel)
                  /\ bc[k].message.type = "scheduler." \o e
                  /\ bc[k].attempted \subseteq
                         SchedulerSubscribers(t, bc[k].message.channel)

\* an event without a board was attempted at the board-less scheduler
\* subscriber of its tenant and not at the subscriber of board "b1"
C23_Witness ==
    \E k \in Tasks, w \in Conns, v \in Conns :
        /\ bc[k].kind = "event"
        /\ bc[k].phase = "returned"
        /\ bc[k].message.channel = None
        /\ w \in bc[k].attempted
        /\ req[v].endpoint = "scheduler"
        /\ req[v].board = "b1"
        /\ tenant_id[v] = tenant_id[w]
        /\ pc[v] = "active"
        /\ v \notin bc[k].attempted

\* the broadcasts whose message is WsEnvelope(...).model_dump(): the two
\* publish wrappers and the scheduler handler's rebroadcast
EnvelopeKinds == {"kpi", "event", "rebroadcast"}

\* C24: a broadcast of an envelope built by the handlers or the publish
\* wrappers delivers it to every subscriber it attempts whose connection is
\* open and whose transport accepts messages, does not mark that subscriber
\* for removal, and leaves it a member of the topic when it returns.
C24_LiveSubscriberKept ==
    \A k \in Tasks :
        bc[k].kind \in EnvelopeKinds =>
            \A w \in bc[k].attempted :
                Healthy(w) =>
                    /\ w \in bc[k].delivered
                    /\ w \notin bc[k].to_drop
                    /\ bc[k].phase = "returned" => w \in topics[bc[k].topic]

\* the handler of w is in its receive loop, waiting for a frame or
\* rebroadcasting one
InReceiveLoop(w) == pc[w] \in {"active", "broadcasting"}

\* C25 as stated: every connection whose handler is in its receive loop is a
\* member of its topic.
C25_ActiveIsMember ==
    \A w \in Conns : InReceiveLoop(w) => w \in MembersOf(topics, topic[w])

\* C25 amended: every connection whose handler is in its receive loop and
\* that no broadcast has pruned is a member of its topic, and a connection
\* leaves a topic only by its own handler's disconnect or by the prune of a
\* broadcast.
C25_ActiveUnprunedIsMember ==
    /\ [](\A w \in Conns :
            (InReceiveLoop(w) /\ w \notin pruned) =>
                w \in MembersOf(topics, topic[w]))
    /\ [][\A w \in Conns : \A t \in DOMAIN topics :
            (w \in topics[t] /\ w \notin topics'[t]) =>
                (DisconnectReturns(w) \/ w \in pruned')]_vars

\* a broadcast pruned a connection whose handler is still in its receive
\* loop, while the other member of the topic, not pruned, is still subscribed
C25_Witness ==
    \E w \in pruned, v \in Conns \ pruned :
        /\ InReceiveLoop(w)
        /\ w \notin topics[topic[w]]
        /\ pc[v] = "active"
        /\ topic[v] = topic[w]
        /\ v \in topics[topic[v]]

\* connect(topic, w) has returned and w has neither started its disconnect
\* nor been pruned
Subscribed(w) ==
    /\ pc[w] \in {"subscribed", "active", "broadcasting"}
    /\ w \notin pruned

\* broadcast call k takes its subscriber snapshot in this step
TakesSnapshot(k) == bc[k].phase # "fanout" /\ bc'[k].phase = "fanout"

\* C30: a broadcast's snapshot holds every connection whose connect on the
\* topic has returned and that is not disconnected or pruned, also one that
\* has not been pushed its initial snapshot yet, and when the broadcast
\* returns it has attempted every connection of its snapshot but the
\* excluded sender.
C30_NoBroadcastMissed ==
    /\ [][\A k \in Tasks :
            TakesSnapshot(k) =>
                \A w \in Conns :
                    (Subscribed(w) /\ topic[w] = bc'[k].topic) =>
                        w \in bc'[k].snapshot]_vars
    /\ [](\A k \in Tasks :
            bc[k].phase = "returned" =>
                \A w \in bc[k].snapshot :
                    ~IsExcluded(bc[k].exclude, w) => w \in bc[k].attempted)

\* a broadcast message reached a subscriber whose handler has not yet pushed
\* the initial kpi.snapshot
C30_Witness ==
    \E w \in Conns, k \in Tasks :
        /\ pc[w] = "subscribed"
        /\ bc[k].phase = "returned"
        /\ w \in bc[k].delivered
        /\ inbox[w] = <<JsonFrame(topic[w], bc[k].message)>>

\* the topic of the manager call task k is in
CallTopic(k) == IF InBroadcast(k) THEN bc[k].topic ELSE topic[k]

\* the topic whose subscribers are slow: a delivery to one of them may stay
\* suspended for ever
StallTopic == dashboard_topic("t1")

\* the event loop runs every ready task, and every delivery returns or raises
\* except those to subscribers of the slow topic
FairnessStall ==
    /\ \A w \in Conns : WF_vars(ReceiveDisconnect(w))
    /\ \A w \in Conns : WF_vars(ConnectResume(w))
    /\ \A w \in Conns : WF_vars(DisconnectResume(w))
    /\ \A k \in Tasks : WF_vars(BroadcastResume(k))
    /\ \A k \in Tasks :
           WF_vars(bc[k].topic # StallTopic /\ \E ws \in Conns : BroadcastNext(k, ws))
    /\ \A k \in Tasks : WF_vars(BroadcastFinish(k))

SpecStall == Init /\ [][Next]_vars /\ FairnessStall

\* C29: a call waits for a topic lock only behind a call on the same topic,
\* and while a broadcast to one topic stays suspended on a slow subscriber
\* every connect, disconnect and broadcast call on any other topic completes.
C29_TopicsIndependent ==
    /\ [](\A t \in DOMAIN locks :
            locks[t].waiters # <<>> =>
                /\ locks[t].holder # NoTask
                /\ InCall(locks[t].holder)
                /\ CallTopic(locks[t].holder) = t)
    /\ []<>(\A k \in Tasks : InCall(k) => CallTopic(k) = StallTopic)

\* a broadcast to the slow topic is suspended on its first delivery while a
\* scheduler handler's rebroadcast holds the lock of another topic
C29_Witness ==
    \E k \in Tasks, w \in Conns :
        /\ InFanout(k, StallTopic)
        /\ bc[k].todo # {}
        /\ bc[k].attempted = {}
        /\ topic[w] # StallTopic
        /\ InFanout(w, topic[w])
        /\ w \in MembersOf(topics, topic[w])

-----------------------------------------------------------------------------
(* Concurrent broadcasts to one topic: specification SpecOrder *)

OrderTopic == dashboard_topic("t1")

\* two dashboard clients of tenant t1 are subscribed and in their receive
\* loops; nothing has been broadcast yet
InitOrder ==
    /\ topics = (OrderTopic :> Conns)
    /\ locks = (OrderTopic :> FreeLock)
    /\ pc = [w \in Conns |-> "active"]
    /\ req = [w \in Conns |->
                 [endpoint |-> "dashboard", token |-> Jwt("t1", "u1"),
                  header |-> "t1", board |-> None]]
    /\ tenant_id = [w \in Conns |-> "t1"]
    /\ user_id = [w \in Conns |-> "u1"]
    /\ topic = [w \in Conns |-> OrderTopic]
    /\ application_state = [w \in Conns |-> "CONNECTED"]
    /\ client_state = [w \in Conns |-> "CONNECTED"]
    /\ peerGone = [w \in Conns |-> FALSE]
    /\ closeCode = [w \in Conns |-> 0]
    /\ inbox = [w \in Conns |-> <<>>]
    /\ rx = NoRx
    /\ nRecv = 0
    /\ bc = [k \in Tasks |-> NoCall]
    /\ nCalls = 0
    /\ pruned = {}
    /\ InitAuthIdle
    /\ InitDbIdle

\* the n-th message passed to broadcast(): messages are told apart by type
NumberedType == <<"m1", "m2", "m3", "m4">>
SeqOf(m) == CHOOSE n \in 1..Len(NumberedType) : NumberedType[n] = m.type

\* broadcast(topic, message) called by task p with the next numbered message
OrderedBroadcast(p) ==
    /\ Idle(p)
    /\ nCalls < MaxOrdered
    /\ nCalls' = nCalls + 1
    /\ BroadcastCall(p, "direct", OrderTopic, PlainDict(NumberedType[nCalls + 1]),
                     NoTask)
    /\ UNCHANGED <<pc, req, tenant_id, user_id, topic, application_state,
                   client_state, peerGone, closeCode, inbox, rx, nRecv, pruned>>
    /\ UNCHANGED <<authVars, db>>

NextOrder ==
    \/ \E p \in Callers : OrderedBroadcast(p)
    \/ \E k \in Tasks : BroadcastResume(k)
    \/ \E k \in Tasks, ws \in Conns : BroadcastNext(k, ws)
    \/ \E k \in Tasks : BroadcastFinish(k)
    \/ \E w \in Conns : PeerClose(w)
    \/ \E w \in Conns : ReceiveDisconnect(w)
    \/ \E w \in Conns : DisconnectResume(w)

SpecOrder == InitOrder /\ [][NextOrder]_vars

\* the numbers of the broadcast messages in a client's inbox, in the order
\* the client observes them
Observed(w) ==
    [i \in 1..Len(inbox[w]) |-> SeqOf(inbox[w][i].json)]

\* C11: broadcasts to one topic are observed by every subscriber in the order
\* in which broadcast() was called: a message of a later call never precedes
\* a message of an earlier call in any inbox.
C11_PerSubscriberOrdering ==
    \A w \in Conns :
        \A i, j \in 1..Len(inbox[w]) :
            i < j => Observed(w)[i] < Observed(w)[j]

\* a call waits for the topic lock while another call is in the middle of its
\* fan-out, and a subscriber already holds the messages of two calls
C11_Witness ==
    \E a, b \in Callers :
        /\ bc[a].phase = "fanout"
        /\ bc[a].delivered # {} /\ bc[a].todo # {}
        /\ bc[b].phase = "wait"
        /\ \E w \in bc[a].delivered : Len(inbox[w]) >= 2

-----------------------------------------------------------------------------
(* disconnect(topic, websocket) called directly: specification SpecDisc *)

MaxRepeat == 2         \* times the same disconnect call is made

DiscTopics == {dashboard_topic("t1"), scheduler_topic("t1", None),
               scheduler_topic("t1", "b1")}

\* the connection attempt that subscribes a client to topic t
ReqFor(t) ==
    [endpoint |-> IF t = dashboard_topic("t1") THEN "dashboard" ELSE "scheduler",
     token |-> Jwt("t1", "u1"), header |-> "t1",
     board |-> IF t = scheduler_topic("t1", "b1") THEN "b1" ELSE None]

\* manager states: the topics that exist (created by a connect or by a
\* broadcast) and, for each client, the topic it is subscribed to, if any
Memberships == [Conns -> DiscTopics \cup {None}]
TopicsOf(D, mem) == [t \in D |-> {w \in Conns : mem[w] = t}]

InitDisc ==
    \E D \in SUBSET DiscTopics, mem \in Memberships :
        /\ \A w \in Conns : mem[w] # None => mem[w] \in D
        /\ topics = TopicsOf(D, mem)
        /\ locks = [t \in D |-> FreeLock]
        /\ pc = [w \in Conns |-> IF mem[w] = None THEN "idle" ELSE "active"]
        /\ req = [w \in Conns |-> IF mem[w] = None THEN NoReq ELSE ReqFor(mem[w])]
        /\ tenant_id = [w \in Conns |-> IF mem[w] = None THEN None ELSE "t1"]
        /\ user_id = [w \in Conns |-> IF mem[w] = None THEN None ELSE "u1"]
        /\ topic = mem
        /\ application_state =
               [w \in Conns |-> IF mem[w] = None THEN "CONNECTING" ELSE "CONNECTED"]
        /\ client_state =
               [w \in Conns |-> IF mem[w] = None THEN "CONNECTING" ELSE "CONNECTED"]
        /\ peerGone = [w \in Conns |-> FALSE]
        /\ closeCode = [w \in Conns |-> 0]
        /\ inbox = [w \in Conns |-> <<>>]
        /\ rx = NoRx
        /\ nRecv = 0
        /\ bc = [k \in Tasks |-> NoCall]
        /\ nCalls = 0
        /\ pruned = {}
        /\ authIn = NoAuthIn /\ authOut = Reject(0) /\ reg = NoRegs
        /\ keys = NoKeys
        /\ \E t \in DiscTopics, w \in Conns :
               op = [NoOp EXCEPT !.topic = t, !.conn = w, !.before = topics]
        /\ InitDbIdle

Disconnect_Remove(tp, t, ws) ==
    IF t \notin DOMAIN tp THEN [topics |-> tp, raised |-> FALSE]
    ELSE [topics |-> DiscardSubscriber(tp, t, ws), raised |-> ws \notin tp[t]]

\* disconnect (lines 64-70) with the topic lock free: the early return when
\* the topic is unknown, else set.discard, which accepts a non-member
Disconnect(tp, t, ws) ==
    IF t \notin DOMAIN tp THEN [topics |-> tp, raised |-> FALSE]
    ELSE [topics |-> DiscardSubscriber(tp, t, ws), raised |-> FALSE]

\* one more call disconnect(op.topic, op.conn)
DirectDisconnect ==
    /\ op.n < MaxRepeat
    /\ ~op.raised
    /\ LET r == Disconnect(topics, op.topic, op.conn) IN
         /\ topics' = r.topics
         /\ locks' = IF op.topic \in DOMAIN topics
                     THEN Release(Acquire(TopicLock(locks, op.topic),
                                          op.topic, op.conn), op.topic)
                     ELSE locks
         /\ op' = [op EXCEPT !.n = @ + 1, !.raised = r.raised,
                             !.once = IF op.n = 0 THEN r.topics ELSE @]
    /\ UNCHANGED <<pc, req, tenant_id, user_id, topic, application_state,
                   client_state, peerGone, closeCode, inbox, rx, nRecv, bc,
                   nCalls, pruned, authIn, authOut, reg, keys, db>>

NextDisc == DirectDisconnect

SpecDisc == InitDisc /\ [][NextDisc]_vars

\* C12: disconnect(topic, conn) never raises, whether or not the topic exists
\* and conn is a member; it creates no topic; it removes conn from that topic
\* and changes nothing else; and a second call leaves the state of the first.
C12_DisconnectIdempotentTotal ==
    op.n >= 1 =>
        /\ ~op.raised
        /\ DOMAIN topics = DOMAIN op.before
        /\ \A t \in DOMAIN topics :
               topics[t] = IF t = op.topic THEN op.before[t] \ {op.conn}
                           ELSE op.before[t]
        /\ topics = op.once
        /\ \A t \in DOMAIN locks : locks[t] = FreeLock
        /\ DOMAIN locks = DOMAIN topics

\* disconnect was called twice with the same arguments: on a topic that does
\* not exist, or on an existing topic of which the connection was a member
C12_Witness ==
    /\ op.n = MaxRepeat
    /\ \/ op.topic \notin DOMAIN topics
       \/ op.topic \in DOMAIN topics /\ op.conn \in op.before[op.topic]

-----------------------------------------------------------------------------
(* Concurrent registrations into one tenant: specification SpecReg *)
(* (api/routes/auth.py:51-75, repositories/security.py)               *)

InitReg ==
    /\ InitWs
    /\ authIn = NoAuthIn /\ authOut = Reject(0) /\ op = NoOp
    /\ reg = NoRegs
    /\ keys = NoKeys
    /\ InitDbIdle

\* committed users of the tenant with the given email
UsersWithEmail(e) == {i \in 1..Len(reg.users) : reg.users[i].email = e}

RegUnchanged == UNCHANGED <<wsVars, authIn, authOut, op, keys, db>>

\* POST /auth/register arrives with an email; requests are numbered in their
\* order of arrival
RegisterStart(i, e) ==
    /\ reg.r[i].pc = "none"
    /\ \A j \in Regs : j < i => reg.r[j].pc # "none"
    /\ reg' = [reg EXCEPT !.r[i].pc = "check", !.r[i].email = e]
    /\ RegUnchanged

\* SecurityRepository.count_users: the committed users of the tenant
count_users(users) == Len(users)

\* lines 58-60: existing = await repo.get_user_by_email(payload.email)
RegisterCheckExisting(i) ==
    /\ reg.r[i].pc = "check"
    /\ reg' = [reg EXCEPT !.r[i].pc =
                  IF UsersWithEmail(reg.r[i].email) # {} THEN "http400"
                  ELSE "create"]
    /\ RegUnchanged

\* lines 63-65: repo.create_user: add, commit (the INSERT and its COMMIT);
\* the unique constraint (tenant_id, email) refuses a second row
RegisterCreateUser(i) ==
    /\ reg.r[i].pc = "create"
    /\ reg' = IF UsersWithEmail(reg.r[i].email) # {}
              THEN [reg EXCEPT !.r[i].pc = "error"]
              ELSE [reg EXCEPT !.users = Append(@, [email |-> reg.r[i].email,
                                                    by |-> i]),
                               !.r[i].pc = "count"]
    /\ RegUnchanged

\* line 68: if await repo.count_users() == 1
RegisterCountUsers(i) ==
    /\ reg.r[i].pc = "count"
    /\ LET n == count_users(reg.users) IN
       reg' = [reg EXCEPT !.r[i].count = n,
                          !.r[i].pc = IF n = 1 THEN "role" ELSE "done"]
    /\ RegUnchanged

\* lines 69-71: get_role_by_name("admin"), create_role when absent
RegisterEnsureAdminRole(i) ==
    /\ reg.r[i].pc = "role"
    /\ reg' = [reg EXCEPT !.adminRole = TRUE, !.r[i].pc = "assign"]
    /\ RegUnchanged

\* line 72: repo.assign_role_to_user(user.id, role.id)
RegisterAssignRole(i) ==
    /\ reg.r[i].pc = "assign"
    /\ reg' = [reg EXCEPT !.user_roles = @ \cup {i}, !.r[i].pc = "done"]
    /\ RegUnchanged

NextReg ==
    \/ \E i \in Regs, e \in Emails : RegisterStart(i, e)
    \/ \E i \in Regs : RegisterCheckExisting(i)
    \/ \E i \in Regs : RegisterCreateUser(i)
    \/ \E i \in Regs : RegisterCountUsers(i)
    \/ \E i \in Regs : RegisterEnsureAdminRole(i)
    \/ \E i \in Regs : RegisterAssignRole(i)

SpecReg == InitReg /\ [][NextReg]_vars

\* the request that created the tenant's first user
FirstCreator == reg.users[1].by

\* C19: of the registrations into a tenant that had no users, the one that
\* created the first user has been given the admin role when it returns, and
\* no other registration is given it.
C19_FirstUserIsAdmin ==
    reg.users # <<>> =>
        /\ reg.r[FirstCreator].pc = "done" => FirstCreator \in reg.user_roles
        /\ reg.user_roles \subseteq {FirstCreator}

-----------------------------------------------------------------------------
(* tenant_context over pooled connections: specification SpecDb *)

\* the pool can hand the session a connection: a pooled one or a new one
CanCheckout(d, s) ==
    d.sess[s].conn # NoConn \/ Len(d.pool) > 0 \/ d.created < MaxDbConns

\* the connection a statement of the session runs on: the one it holds, else
\* the oldest pooled one, else a new one
ConnFor(d, s) ==
    IF d.sess[s].conn # NoConn THEN d.sess[s].conn
    ELSE IF Len(d.pool) > 0 THEN Head(d.pool)
    ELSE d.created + 1

\* the session takes its connection and begins a transaction on it if none
\* is open; the transaction starts from the connection's committed setting
Begin(d, s) ==
    LET c == ConnFor(d, s) IN
    [d EXCEPT
        !.pool = IF d.sess[s].conn = NoConn /\ Len(d.pool) > 0
                 THEN Tail(d.pool) ELSE d.pool,
        !.created = IF d.sess[s].conn = NoConn /\ Len(d.pool) = 0
                    THEN d.created + 1 ELSE d.created,
        !.txn[c] = IF d.txn[c] = "none" THEN "open" ELSE d.txn[c],
        !.txguc[c] = IF d.txn[c] = "none" THEN d.guc[c] ELSE d.txguc[c],
        !.sess[s].conn = c]

\* SELECT set_config('app.tenant_id', v, false) through the session; in a
\* failed transaction the statement raises and sets nothing
SetConfig(d, s, v) ==
    LET b == Begin(d, s)
        c == b.sess[s].conn
    IN IF b.txn[c] = "failed" THEN b ELSE [b EXCEPT !.txguc[c] = v]

\* the connection goes back to the pool, keeping its session-level setting
ReleaseConn(d, s, keep) ==
    LET c == d.sess[s].conn IN
    IF c = NoConn THEN d
    ELSE [d EXCEPT
            !.guc[c] = IF keep THEN d.txguc[c] ELSE d.guc[c],
            !.txn[c] = "none",
            !.pool = Append(d.pool, c),
            !.sess[s].conn = NoConn]

\* async with maker() as session
OpenSession(s, t) ==
    /\ db.sess[s].pc = "none"
    /\ \A r \in Sessions : r < s => db.sess[r].pc # "none"
    /\ db' = [db EXCEPT !.sess[s].pc = "open", !.sess[s].tenant = t]
    /\ UNCHANGED <<wsVars, authVars>>

\* a statement issued through the session before the context is entered
StatementOutside(s) ==
    /\ db.sess[s].pc = "open"
    /\ db.sess[s].n = 0
    /\ CanCheckout(db, s)
    /\ LET b == Begin(db, s)
           c == b.sess[s].conn
       IN db' = [b EXCEPT !.sess[s].n = 1,
                          !.sess[s].seen_out = @ \cup {b.txguc[c]}]
    /\ UNCHANGED <<wsVars, authVars>>

\* tenant_context entry: set_current_tenant(session, tenant_id)
EnterTenantContext(s) ==
    /\ db.sess[s].pc = "open"
    /\ CanCheckout(db, s)
    /\ db' = [SetConfig(db, s, db.sess[s].tenant) EXCEPT
                 !.sess[s].pc = "in_context", !.sess[s].n = 0]
    /\ UNCHANGED <<wsVars, authVars>>

\* a read or write issued inside the context; ok = FALSE is a statement the
\* database refuses, which aborts the transaction
Statement(s, ok) ==
    /\ db.sess[s].pc = "in_context"
    /\ db.sess[s].n < MaxStmts
    /\ CanCheckout(db, s)
    /\ LET b == Begin(db, s)
           c == b.sess[s].conn
       IN /\ b.txn[c] = "open"
          /\ db' = [b EXCEPT
                       !.sess[s].n = @ + 1,
                       !.sess[s].seen = IF ok THEN @ \cup {b.txguc[c]} ELSE @,
                       !.txn[c] = IF ok THEN "open" ELSE "failed"]
    /\ UNCHANGED <<wsVars, authVars>>

\* session.commit() inside the context
CommitInside(s) ==
    /\ db.sess[s].pc = "in_context"
    /\ db.sess[s].conn # NoConn
    /\ db.txn[db.sess[s].conn] = "open"
    /\ db' = ReleaseConn(db, s, TRUE)
    /\ UNCHANGED <<wsVars, authVars>>

\* tenant_context exit, on completion, error or cancellation of the block:
\* the finally clause executes the reset through the session
ExitTenantContext(s) ==
    /\ db.sess[s].pc = "in_context"
    /\ CanCheckout(db, s)
    /\ db' = [SetConfig(db, s, Empty) EXCEPT !.sess[s].pc = "exited"]
    /\ UNCHANGED <<wsVars, authVars>>

\* session.commit() after the context
CommitAfter(s) ==
    /\ db.sess[s].pc = "exited"
    /\ db.sess[s].conn # NoConn
    /\ db.txn[db.sess[s].conn] = "open"
    /\ db' = ReleaseConn(db, s, TRUE)
    /\ UNCHANGED <<wsVars, authVars>>

\* leaving async with maker(): the session closes, rolling back what is open
CloseSession(s) ==
    /\ db.sess[s].pc = "exited"
    /\ db' = [ReleaseConn(db, s, FALSE) EXCEPT !.sess[s].pc = "closed"]
    /\ UNCHANGED <<wsVars, authVars>>

\* seed.py line 68, in _ensure_base_tenant: the setting is set through the
\* session directly, outside any tenant_context
SeedSetTenant(s) ==
    /\ db.sess[s].pc = "open"
    /\ db.sess[s].n = 1          \* after the SELECT of line 60
    /\ CanCheckout(db, s)
    /\ db' = [SetConfig(db, s, db.sess[s].tenant) EXCEPT !.sess[s].pc = "seeding"]
    /\ UNCHANGED <<wsVars, authVars>>

\* seed.py lines 69-78: the INSERT and the re-read; ok = FALSE is a statement
\* the database refuses or the RuntimeError of line 77, which leaves seed_all
SeedInsertTenant(s, ok) ==
    /\ db.sess[s].pc = "seeding"
    /\ CanCheckout(db, s)
    /\ LET b == Begin(db, s)
           c == b.sess[s].conn
       IN /\ b.txn[c] = "open"
          /\ db' = [b EXCEPT
                    !.sess[s].pc = IF ok THEN "open" ELSE "raised",
                    !.txn[c] = IF ok THEN "open" ELSE "failed"]
    /\ UNCHANGED <<wsVars, authVars>>

\* the error leaves seed_all: the session made by get_async_session is
\* closed, which rolls back its transaction
SeedAbort(s) ==
    /\ db.sess[s].pc = "raised"
    /\ db' = [ReleaseConn(db, s, FALSE) EXCEPT !.sess[s].pc = "closed"]
    /\ UNCHANGED <<wsVars, authVars>>

NextDb ==
    \/ \E s \in Sessions, t \in Tenants : OpenSession(s, t)
    \/ \E s \in Sessions : SeedSetTenant(s)
    \/ \E s \in Sessions, ok \in BOOLEAN : SeedInsertTenant(s, ok)
    \/ \E s \in Sessions : SeedAbort(s)
    \/ \E s \in Sessions : StatementOutside(s)
    \/ \E s \in Sessions : EnterTenantContext(s)
    \/ \E s \in Sessions, ok \in BOOLEAN : Statement(s, ok)
    \/ \E s \in Sessions : CommitInside(s)
    \/ \E s \in Sessions : ExitTenantContext(s)
    \/ \E s \in Sessions : CommitAfter(s)
    \/ \E s \in Sessions : CloseSession(s)

InitSessions == InitWs /\ InitAuthIdle /\ InitDbIdle

SpecDb == InitSessions /\ [][NextDb]_vars

\* the setting the session is left with once the context has exited: the
\* open transaction's value, else the committed value of its connection (of
\* the connection it would be handed, when it holds none)
Carries(s) ==
    LET c == db.sess[s].conn IN
    IF c = NoConn
    THEN IF Len(db.pool) > 0 THEN db.guc[Head(db.pool)] ELSE Unset
    ELSE IF db.txn[c] = "open" THEN db.txguc[c]
    ELSE db.guc[c]

\* C2: once tenant_context has exited, on any exit path, the session no
\* longer carries the tenant it was entered with.
C2_ResetOnEveryExitPath ==
    \A s \in Sessions :
        db.sess[s].pc = "exited" => Carries(s) # db.sess[s].tenant

\* C3: every statement issued through a session while its context is active
\* runs with the scoping of that session's tenant, also after a commit made
\* inside the context, and statements of a session outside a context never
\* run with a tenant's scoping.
C3_ScopedWhileActive ==
    \A s \in Sessions :
        /\ db.sess[s].seen \subseteq {db.sess[s].tenant}
        /\ db.sess[s].seen_out \cap Tenants = {}

\* C28: whenever a session's connection is committed or released, the
\* app.tenant_id setting it keeps is not a tenant id: every path that set it,
\* tenant_context and the seeding of the base tenant alike, has reset it.
C28_ResetBeforeCommitOrRelease ==
    \A c \in DbConns : db.guc[c] \notin Tenants

-----------------------------------------------------------------------------
(* The authenticator as a function of its input: specification SpecAuth *)

ClaimTenants == {None, "t1", "t2"}        \* claims.get("tenant_id")
ClaimSubs == {None, "", "u1"}             \* claims.get("sub")
AuthTokens ==
    {NoToken, EmptyToken, Garbage} \cup
    {Expired(t, "u1") : t \in Tenants} \cup
    {Jwt(t, u) : t \in ClaimTenants, u \in ClaimSubs}
AuthHeaders == {None, "", "t1", "t2", "None"}   \* websocket.headers.get(...)

Undecided == Reject(0)

InitAuth ==
    /\ authIn \in [token : AuthTokens, header : AuthHeaders]
    /\ authOut = Undecided
    /\ op = NoOp
    /\ reg = NoRegs
    /\ keys = NoKeys

\* _validate_ws_and_get_user runs on the input
RunValidateWs ==
    /\ authOut = Undecided
    /\ authOut' = ValidateWs(authIn.token, authIn.header)
    /\ UNCHANGED <<authIn, op, reg, keys>>
    /\ UNCHANGED <<wsVars, db>>

NextAuth == RunValidateWs

InitValidate == InitWs /\ InitAuth /\ InitDbIdle

SpecAuth == InitValidate /\ [][NextAuth]_vars

\* the four checks, as the contract words them
BothPresent(tok, hdr) == Truthy(TokenParam(tok)) /\ Truthy(hdr)
DecodesValid(tok) == tok.form = "jwt"
TenantClaimEquals(tok, hdr) == tok.tenant_id # None /\ tok.tenant_id = hdr
HasSubject(tok) == Truthy(tok.sub)

FirstFailingCheck(tok, hdr) ==
    IF ~BothPresent(tok, hdr) THEN Reject(4401)
    ELSE IF ~DecodesValid(tok) THEN Reject(4401)
    ELSE IF ~TenantClaimEquals(tok, hdr) THEN Reject(4403)
    ELSE IF ~HasSubject(tok) THEN Reject(4401)
    ELSE Admit(hdr, tok.sub)

\* C5: the checks are applied in the order present / decodes / tenant claim
\* equals the declared tenant / non-empty subject, the first failing check
\* alone decides the close code, and only an input that passes all four is
\* given the pair (tenant_id, user_id).
C5_FirstFailingCheckDecides ==
    authOut # Undecided => authOut = FirstFailingCheck(authIn.token, authIn.header)

\* get_tenant_id: the X-Tenant-ID header must be present and parse as a UUID
IsUuid(hdr) == hdr \in Tenants

\* get_current_user, after get_tenant_id: the HTTP counterpart of
\* _validate_ws_and_get_user, answering with an HTTP status instead of a
\* close code
GetCurrentUser(tok, hdr) ==
    IF ~Truthy(hdr) \/ ~IsUuid(hdr) THEN Reject(400)
    ELSE IF DecodeRaises(tok) THEN Reject(401)
    ELSE IF ~Truthy(tok.tenant_id) \/ Str(tok.tenant_id) # Str(hdr) THEN Reject(403)
    ELSE IF ~Truthy(tok.sub) THEN Reject(401)
    ELSE Admit(hdr, tok.sub)

\* C27: a decodable token without a tenant_id claim is admitted by neither
\* authenticator, whatever the X-Tenant-ID header says.
C27_MissingTenantClaimRejected ==
    (authOut # Undecided /\ DecodesValid(authIn.token)
        /\ authIn.token.tenant_id = None) =>
        /\ ~authOut.ok
        /\ ~GetCurrentUser(authIn.token, authIn.header).ok

-----------------------------------------------------------------------------
(* The topic derivation as a function of its arguments: specification        *)
(* SpecTopic                                                                 *)

\* tenant identifier strings: the functions take `UUID | str`, so besides
\* str(UUID) values any string can be passed, one holding the separator too
TenantStrings == Tenants \cup {"t1:b1", "None"}

\* board strings: the client-supplied ?board= parameter, or None
BoardStrings == Boards \cup {"x", "b1:x"}

\* a tenant identifier without the separator ':' in it, as str(UUID) is
Colonless(t) == t \in Tenants \cup {"None"}

InitTopic ==
    /\ InitWs
    /\ authIn = NoAuthIn /\ authOut = Reject(0) /\ op = NoOp /\ reg = NoRegs
    /\ keys \in {[NoKeys EXCEPT !.a = a, !.b1 = b1, !.b = b, !.b2 = b2] :
                    a \in TenantStrings, b1 \in BoardStrings,
                    b \in TenantStrings, b2 \in BoardStrings}
    /\ InitDbIdle

\* dashboard_topic and scheduler_topic are applied to both pairs
DeriveTopics ==
    /\ ~keys.done
    /\ keys' = [keys EXCEPT
                   !.done = TRUE,
                   !.dashboard = <<dashboard_topic(keys.a), dashboard_topic(keys.b)>>,
                   !.scheduler = <<scheduler_topic(keys.a, keys.b1),
                                   scheduler_topic(keys.b, keys.b2)>>]
    /\ UNCHANGED <<wsVars, authIn, authOut, op, reg, db>>

NextTopic == DeriveTopics

SpecTopic == InitTopic /\ [][NextTopic]_vars

\* the keys of distinct tenants differ, and no dashboard key is a scheduler key
AcrossTenants ==
    /\ keys.a # keys.b =>
          /\ keys.dashboard[1] # keys.dashboard[2]
          /\ keys.scheduler[1] # keys.scheduler[2]
    /\ \A i \in 1..2, j \in 1..2 : keys.dashboard[i] # keys.scheduler[j]

\* within one tenant distinct non-empty boards give distinct keys, and an
\* absent and an empty board give the same key
WithinTenant ==
    keys.a = keys.b =>
        /\ (Truthy(keys.b1) /\ Truthy(keys.b2) /\ keys.b1 # keys.b2) =>
               keys.scheduler[1] # keys.scheduler[2]
        /\ (~Truthy(keys.b1) /\ ~Truthy(keys.b2)) =>
               keys.scheduler[1] = keys.scheduler[2]

\* C26 as stated: for all tenant identifier strings A # B and all boards the
\* dashboard keys differ and the scheduler keys differ, no dashboard key equals
\* a scheduler key, and within a tenant boards are told apart except that an
\* absent and an empty board coincide.
C26_TopicsInjective ==
    keys.done => (AcrossTenants /\ WithinTenant)

\* C26 amended: the same, for tenant identifier strings that do not contain
\* the separator ':'.
C26_TopicsInjectiveColonless ==
    (keys.done /\ Colonless(keys.a) /\ Colonless(keys.b)) =>
        (AcrossTenants /\ WithinTenant)

\* keys were derived for two distinct tenants, one board holding a ':' and
\* the other being the other tenant's identifier
C26_Witness ==
    /\ keys.done
    /\ keys.a = "t1" /\ keys.b = "t2"
    /\ keys.b1 = "b1:x" /\ keys.b2 = "t2"
    /\ keys.scheduler[1] # keys.scheduler[2]

=============================================================================
